---- MODULE Spec2Model ----
(***************************************************************************)
(* The payment and deposit handlers of the jobs/balances API, as state     *)
(* machines over a transactional store.  Every request is a process whose  *)
(* steps are the awaited store calls of its handler; the store offers      *)
(* read-committed reads, row locks held to the end of the transaction, and *)
(* atomic commit.  The handlers exist twice in the sources: in the         *)
(* monolithic app ("app") and in the route modules ("router").             *)
(*                                                                         *)
(* Steps no other request can tell apart are taken together: the arrival   *)
(* of a request, the opening of its transaction and its first read; and a  *)
(* failed check, the rollback and the answer.                              *)
(***************************************************************************)
EXTENDS Integers, Sequences, FiniteSets, TLC

\* ---- bounds -------------------------------------------------------------
\* number of requests served in one behaviour (all may be in flight at once)
MaxReq == 2
\* number of store calls that may throw in one behaviour
MaxFaults == 1

Req == 1..MaxReq

\* ---- the data the handlers work on ---------------------------------------
\* Profile rows: id -> type.  The handlers never change a type.
Profiles == {1, 2, 3, 4}
ProfileType == (1 :> "client") @@ (2 :> "client") @@ (3 :> "contractor")
            @@ (4 :> "contractor")
Profession == (1 :> "manager") @@ (2 :> "trader") @@ (3 :> "programmer")
           @@ (4 :> "musician")
FirstName == (1 :> "Harry") @@ (2 :> "Ash") @@ (3 :> "John") @@ (4 :> "Linus")
LastName == (1 :> "Potter") @@ (2 :> "Kethcum") @@ (3 :> "Lenon") @@ (4 :> "Torvalds")

\* Contract rows: ClientId, ContractorId, status.  Never written by a handler.
\* Contract 4 names profile 2 on both sides.
Contracts == {1, 2, 3, 4}
Contract == (1 :> [ClientId |-> 1, ContractorId |-> 3, status |-> "in_progress"])
         @@ (2 :> [ClientId |-> 1, ContractorId |-> 3, status |-> "terminated"])
         @@ (3 :> [ClientId |-> 2, ContractorId |-> 4, status |-> "new"])
         @@ (4 :> [ClientId |-> 2, ContractorId |-> 2, status |-> "in_progress"])

\* Job rows: ContractId and price (fixed); paid and paymentDate are state.
Jobs == {1, 2, 3, 4, 5}
Job == (1 :> [ContractId |-> 1, price |-> 100])
    @@ (2 :> [ContractId |-> 1, price |-> 120])
    @@ (3 :> [ContractId |-> 2, price |-> 80])
    @@ (4 :> [ContractId |-> 3, price |-> 100])
    @@ (5 :> [ContractId |-> 4, price |-> 50])

ClientOf(j) == Contract[Job[j].ContractId].ClientId
ContractorOf(j) == Contract[Job[j].ContractId].ContractorId

\* the balances before the first request: client 1 can pay jobs 1 and 2 and no
\* more, client 2 can pay job 5 and not job 4
InitialBalance == (1 :> 220) @@ (2 :> 50) @@ (3 :> 0) @@ (4 :> 0)
\* the same with client 2 able to pay both of its jobs
FundedBalance == (1 :> 220) @@ (2 :> 150) @@ (3 :> 0) @@ (4 :> 0)

\* request inputs; id 0 names no row
\* PayJob <<caller, job_id>>: own jobs, a job of a terminated contract, a job of
\* another client, no job, a contractor calling (for a job and for no job), and
\* client 2 with its two jobs
PayInputs == {<<1, 1>>, <<1, 2>>, <<1, 3>>, <<1, 4>>, <<1, 0>>, <<3, 1>>, <<3, 0>>,
              <<2, 4>>, <<2, 5>>}
\* Deposit <<caller, userId, amount>>: the ceiling of client 1 is 75 at first
DepositInputs == {<<1, 1, 75>>, <<1, 1, 76>>, <<1, 1, 0>>, <<2, 2, 0 - 75>>, <<3, 1, 75>>,
                  <<3, 3, 75>>, <<2, 1, 75>>, <<1, 2, 75>>, <<1, 3, 75>>, <<1, 0, 75>>}

\* an optional value: None, or Some(v)
None == <<>>
Some(v) == <<v>>
Val(o) == o[1]

VARIABLES
  variant,      \* which implementation is deployed: "app" or "router"
  balance,      \* committed Profile.balance
  paid,         \* committed Job.paid
  paymentDate,  \* committed Job.paymentDate (None = null)
  lockOwner,    \* row -> the request whose transaction holds its lock, 0 = free
  txStatus,     \* request -> "none", "open", "committed", "rolledback"
  wBalance,     \* request -> profile -> uncommitted balance written in its transaction
  wJob,         \* request -> job -> uncommitted [paid, paymentDate] written in its transaction
  req,          \* request -> handler position, inputs and local variables
  clock,        \* the value new Date() returns next
  faults,       \* store calls that have thrown so far
  balance0      \* the balances before the first request (history)

vars == <<variant, balance, paid, paymentDate, lockOwner, txStatus, wBalance, wJob,
          req, clock, faults, balance0>>

store == <<balance, paid, paymentDate>>

\* ---- the store ------------------------------------------------------------
RowP(p) == <<"Profile", p>>
RowJ(j) == <<"Job", j>>
RowC(c) == <<"Contract", c>>
Rows == {RowP(p) : p \in Profiles} \cup {RowJ(j) : j \in Jobs} \cup {RowC(c) : c \in Contracts}

\* no other transaction holds a lock on one of the rows
Free(rows, r) == \A row \in rows : lockOwner[row] \in {0, r}
Acquire(rows, r) == [row \in Rows |-> IF row \in rows THEN r ELSE lockOwner[row]]
Release(r) == [row \in Rows |-> IF lockOwner[row] = r THEN 0 ELSE lockOwner[row]]

NoWrites == [balance |-> [p \in Profiles |-> None], job |-> [j \in Jobs |-> None]]

\* COMMIT: every write of the transaction becomes visible at once, locks are released
TxCommit(r) ==
  /\ balance' = [p \in Profiles |->
                   IF wBalance[r][p] # None THEN Val(wBalance[r][p]) ELSE balance[p]]
  /\ paid' = [j \in Jobs |-> IF wJob[r][j] # None THEN Val(wJob[r][j]).paid ELSE paid[j]]
  /\ paymentDate' = [j \in Jobs |->
                   IF wJob[r][j] # None THEN Val(wJob[r][j]).paymentDate ELSE paymentDate[j]]
  /\ wBalance' = [wBalance EXCEPT ![r] = NoWrites.balance]
  /\ wJob' = [wJob EXCEPT ![r] = NoWrites.job]
  /\ lockOwner' = Release(r)
  /\ txStatus' = [txStatus EXCEPT ![r] = "committed"]

\* ROLLBACK: the writes of the transaction are discarded, locks are released
TxRollback(r) ==
  /\ wBalance' = [wBalance EXCEPT ![r] = NoWrites.balance]
  /\ wJob' = [wJob EXCEPT ![r] = NoWrites.job]
  /\ lockOwner' = Release(r)
  /\ txStatus' = [txStatus EXCEPT ![r] = "rolledback"]
  /\ UNCHANGED store

\* UPDATE Profiles SET balance = v WHERE id = p, inside the transaction of r:
\* takes the row lock and keeps the new value in the transaction
TxUpdateBalance(r, p, v) ==
  /\ Free({RowP(p)}, r)
  /\ lockOwner' = Acquire({RowP(p)}, r)
  /\ wBalance' = [wBalance EXCEPT ![r][p] = Some(v)]

\* UPDATE Jobs SET paid = .., paymentDate = .. WHERE id = j, inside the transaction of r
TxUpdateJob(r, j, row) ==
  /\ Free({RowJ(j)}, r)
  /\ lockOwner' = Acquire({RowJ(j)}, r)
  /\ wJob' = [wJob EXCEPT ![r][j] = Some(row)]

\* ---- requests -------------------------------------------------------------
Idle == [op |-> "none", pc |-> "idle", caller |-> 0, job |-> 0, target |-> 0, amount |-> 0,
         result |-> "none", price |-> 0, cliBal |-> 0, conBal |-> 0,
         bal |-> None, total |-> 0, maximumDeposit |-> None, solo |-> TRUE,
         start |-> "", end |-> "", limit |-> "", queryLimit |-> 0, id |-> 0, body |-> None]

InFlight(r) == req[r].op # "none" /\ req[r].pc # "done"
Done(r) == req[r].pc = "done"

\* requests arrive in the order of their numbers
MayBegin(r) == req[r].op = "none" /\ \A q \in Req : q < r => req[q].op # "none"

\* the request r as it arrives: solo records that no other request is in flight
\* (history), and every request in flight stops being solo
Arrive(r, new) ==
  [q \in Req |-> IF q = r THEN [new EXCEPT !.solo = \A o \in Req : ~InFlight(o)]
                 ELSE IF InFlight(q) THEN [req[q] EXCEPT !.solo = FALSE]
                 ELSE req[q]]

\* what is kept of a request once it is answered: its inputs and its outcome
\* (with LimitExceeded, the maximumDeposit its message shows and the unpaid
\* total that derives from; with the success of a GET, the body it sends)
Answered(rec, outcome) ==
  [Idle EXCEPT !.op = rec.op, !.pc = "done", !.caller = rec.caller, !.job = rec.job,
               !.target = rec.target, !.amount = rec.amount, !.solo = rec.solo,
               !.result = outcome,
               !.total = IF outcome = "LimitExceeded" THEN rec.total ELSE 0,
               !.maximumDeposit = IF outcome = "LimitExceeded" THEN rec.maximumDeposit
                                  ELSE None,
               !.start = rec.start, !.end = rec.end, !.limit = rec.limit, !.id = rec.id,
               !.queryLimit = rec.queryLimit,
               !.body = IF outcome = "ok" THEN rec.body ELSE None]

\* await transaction.rollback(); return res.status(..).json(..)
Reject(r, rq, outcome) ==
  /\ TxRollback(r)
  /\ req' = [rq EXCEPT ![r] = Answered(rq[r], outcome)]

\* return res.status(..).json(..) with the transaction left as it is
Leave(r, rq, outcome) ==
  /\ req' = [rq EXCEPT ![r] = Answered(rq[r], outcome)]
  /\ UNCHANGED <<store, lockOwner, wBalance, wJob>>

Init ==
  /\ variant \in {"app", "router"}
  /\ balance \in {InitialBalance, FundedBalance}
  /\ paid = [j \in Jobs |-> FALSE]
  /\ paymentDate = [j \in Jobs |-> None]
  /\ lockOwner = [row \in Rows |-> 0]
  /\ txStatus = [r \in Req |-> "none"]
  /\ wBalance = [r \in Req |-> NoWrites.balance]
  /\ wJob = [r \in Req |-> NoWrites.job]
  /\ req = [r \in Req |-> Idle]
  /\ clock = 1
  /\ faults = 0
  /\ balance0 = balance

\* ---- PayJob: POST /jobs/:job_id/pay ----------------------------------------
\* JobMatches without the condition on paid
JobMatchesPaidToo(j, caller) ==
  /\ j \in Jobs
  /\ Contract[Job[j].ContractId].status # "terminated"
  /\ ClientOf(j) = caller

\* the where clause of Job.findOne: the job is not paid, its contract is not
\* terminated and names the caller as client
JobMatches(j, caller) ==
  /\ j \in Jobs
  /\ ~paid[j]
  /\ Contract[Job[j].ContractId].status # "terminated"
  /\ ClientOf(j) = caller

\* LockedRows without `lock: true`: the SELECT locks nothing
NoLockedRows(j) == {}

\* `transaction, lock: true`: the rows the SELECT .. FOR UPDATE over the join locks
LockedRows(j) ==
  {RowJ(j), RowC(Job[j].ContractId), RowP(ClientOf(j)), RowP(ContractorOf(j))}

\* if (clientProfile.balance < jobPrice)
InsufficientBalance(b, price) == b < price

\* clientProfile.balance -= jobPrice
DebitedBalance(b, price) == b - price

\* contractorProfile.balance += jobPrice
CreditedBalance(b, price) == b + price

\* NotClient with the check of the type left out
AnyType(caller) == FALSE

\* if (profile.type !== 'client')
NotClient(caller) == ProfileType[caller] # "client"

\* a caller that is no client: the router rolls back before it answers 403,
\* the app answers 403 and leaves its transaction open
PayForbidden(r, rq) ==
  IF variant = "router"
    THEN Reject(r, rq, "Forbidden")
    ELSE Leave(r, rq, "Forbidden") /\ txStatus' = [txStatus EXCEPT ![r] = "open"]

\* the request arrives, `await sequelize.transaction()` opens its transaction,
\* const profile = await Profile.findByPk(profileId), and the check of its type
PayBegin(r, caller, job) ==
  /\ MayBegin(r)
  /\ LET rq == Arrive(r, [Idle EXCEPT !.op = "pay", !.pc = "findJob",
                                      !.caller = caller, !.job = job])
     IN IF NotClient(caller)
          THEN PayForbidden(r, rq)
          ELSE /\ req' = rq
               /\ txStatus' = [txStatus EXCEPT ![r] = "open"]
               /\ UNCHANGED <<store, lockOwner, wBalance, wJob>>
  /\ UNCHANGED <<variant, clock, faults, balance0>>

\* const job = await Job.findOne({.. transaction, lock: true}), then the checks
\* up to the two in-memory balance updates
PayFindJob(r) ==
  /\ req[r].op = "pay" /\ req[r].pc = "findJob"
  /\ LET j == req[r].job
         found == JobMatches(j, req[r].caller)
         rows == IF found THEN LockedRows(j) ELSE {}
         price == Job[j].price
         cli == balance[ClientOf(j)]
         con == balance[ContractorOf(j)]
     IN /\ Free(rows, r)
        /\ IF ~found
             THEN Reject(r, req, "NotFound")
           ELSE IF InsufficientBalance(cli, price)
             THEN Reject(r, req, "InsufficientFunds")
           ELSE /\ lockOwner' = Acquire(rows, r)
                /\ req' = [req EXCEPT ![r].pc = "saveClient", ![r].price = price,
                                      ![r].cliBal = DebitedBalance(cli, price),
                                      ![r].conBal = CreditedBalance(con, price)]
                /\ UNCHANGED <<store, txStatus, wBalance, wJob>>
  /\ UNCHANGED <<variant, clock, faults, balance0>>

\* PaySaveClient without {transaction}: the UPDATE commits on its own
PaySaveClientOutsideTx(r) ==
  /\ req[r].op = "pay" /\ req[r].pc = "saveClient"
  /\ Free({RowP(ClientOf(req[r].job))}, r)
  /\ balance' = [balance EXCEPT ![ClientOf(req[r].job)] = req[r].cliBal]
  /\ req' = [req EXCEPT ![r].pc = "saveContractor"]
  /\ UNCHANGED <<variant, paid, paymentDate, lockOwner, txStatus, wBalance, wJob,
                 clock, faults, balance0>>

\* await clientProfile.save({transaction})
PaySaveClient(r) ==
  /\ req[r].op = "pay" /\ req[r].pc = "saveClient"
  /\ TxUpdateBalance(r, ClientOf(req[r].job), req[r].cliBal)
  /\ req' = [req EXCEPT ![r].pc = "saveContractor"]
  /\ UNCHANGED <<variant, store, txStatus, wJob, clock, faults, balance0>>

\* await contractorProfile.save({transaction})
PaySaveContractor(r) ==
  /\ req[r].op = "pay" /\ req[r].pc = "saveContractor"
  /\ TxUpdateBalance(r, ContractorOf(req[r].job), req[r].conBal)
  /\ req' = [req EXCEPT ![r].pc = "saveJob"]
  /\ UNCHANGED <<variant, store, txStatus, wJob, clock, faults, balance0>>

\* PaySaveJob with an UPDATE of every job of the contract
PaySaveJobsOfContract(r) ==
  /\ req[r].op = "pay" /\ req[r].pc = "saveJob"
  /\ LET js == {j \in Jobs : Job[j].ContractId = Job[req[r].job].ContractId}
     IN /\ Free({RowJ(j) : j \in js}, r)
        /\ lockOwner' = Acquire({RowJ(j) : j \in js}, r)
        /\ wJob' = [wJob EXCEPT ![r] = [j \in Jobs |->
                      IF j \in js THEN Some([paid |-> TRUE, paymentDate |-> Some(clock)])
                      ELSE wJob[r][j]]]
  /\ clock' = clock + 1
  /\ req' = [req EXCEPT ![r].pc = "commit"]
  /\ UNCHANGED <<variant, store, txStatus, wBalance, faults, balance0>>

\* PaySaveJob without `job.paymentDate = new Date()`
PaySaveJobWithoutDate(r) ==
  /\ req[r].op = "pay" /\ req[r].pc = "saveJob"
  /\ TxUpdateJob(r, req[r].job, [paid |-> TRUE, paymentDate |-> None])
  /\ clock' = clock + 1
  /\ req' = [req EXCEPT ![r].pc = "commit"]
  /\ UNCHANGED <<variant, store, txStatus, wBalance, faults, balance0>>

\* job.paid = true; job.paymentDate = new Date(); await job.save({transaction})
PaySaveJob(r) ==
  /\ req[r].op = "pay" /\ req[r].pc = "saveJob"
  /\ TxUpdateJob(r, req[r].job, [paid |-> TRUE, paymentDate |-> Some(clock)])
  /\ clock' = clock + 1
  /\ req' = [req EXCEPT ![r].pc = "commit"]
  /\ UNCHANGED <<variant, store, txStatus, wBalance, faults, balance0>>

\* await transaction.commit(); res.status(200).json(..)
PayCommit(r) ==
  /\ req[r].op = "pay" /\ req[r].pc = "commit"
  /\ TxCommit(r)
  /\ req' = [req EXCEPT ![r] = Answered(req[r], "ok")]
  /\ UNCHANGED <<variant, clock, faults, balance0>>

\* ---- the catch blocks --------------------------------------------------------
\* the router rolls back and answers 500; the app answers 500 and leaves its
\* transaction open
Caught(r) ==
  IF variant = "router"
    THEN Reject(r, req, "Internal")
    ELSE Leave(r, req, "Internal") /\ UNCHANGED txStatus

\* the awaited store call throws
Throw(r) ==
  /\ InFlight(r)
  /\ faults < MaxFaults
  /\ faults' = faults + 1
  /\ Caught(r)
  /\ UNCHANGED <<variant, clock, balance0>>

\* `await sequelize.transaction()` rejects: the call stands before the try, so
\* the handler ends without an answer of its own and without a transaction
Refused(r, rq) ==
  /\ faults < MaxFaults
  /\ faults' = faults + 1
  /\ Leave(r, rq, "Unhandled")
  /\ UNCHANGED <<variant, txStatus, clock, balance0>>

\* a PayJob arrives and cannot open its transaction
PayRefused(r, caller, job) ==
  /\ MayBegin(r)
  /\ Refused(r, Arrive(r, [Idle EXCEPT !.op = "pay", !.caller = caller, !.job = job]))

\* ---- Deposit: POST /balances/deposit/:userId ----------------------------------
\* if (!amount || isNaN(amount) || amount <= 0), which only the router checks
InvalidAmount(amount) == variant = "router" /\ amount <= 0

\* the profile whose unpaid jobs are summed and whose balance is credited: the
\* router takes the userId of the path, the app the caller
DepositAccount(r) == IF variant = "router" THEN req[r].target ELSE req[r].caller

RECURSIVE SumPrices(_)
SumPrices(js) ==
  IF js = {} THEN 0
  ELSE LET j == CHOOSE x \in js : TRUE IN Job[j].price + SumPrices(js \ {j})

\* UnpaidTotal without the where on ClientId
UnpaidTotalOfAll(p) == SumPrices({j \in Jobs : ~paid[j]})

\* UnpaidTotal with a where on the contract's status
UnpaidTotalNotTerminated(p) ==
  SumPrices({j \in Jobs : /\ ~paid[j] /\ ClientOf(j) = p
                          /\ Contract[Job[j].ContractId].status # "terminated"})

\* Job.findAll({where: {paid: {[Op.not]: true}}, include: {model: Contract, where:
\* {ClientId}}}) and the reduce over the prices
UnpaidTotal(p) == SumPrices({j \in Jobs : ~paid[j] /\ ClientOf(j) = p})

\* ExceedsLimit with >= for >
ExceedsLimitInclusive(amount, total) == amount * 4 >= total

\* ExceedsLimit without the factor 0.25
ExceedsTotal(amount, total) == amount > total

\* maximumDeposit = totalUnpaidAmount * 0.25; if (amount > maximumDeposit)
ExceedsLimit(amount, total) == amount * 4 > total

\* MaximumDeposit with 0.5 for 0.25
MaximumDepositHalf(total) == <<total \div 2, 50 * (total % 2)>>

\* `${maximumDeposit}` in the message of the 400: totalUnpaidAmount * 0.25 as
\* <<units, hundredths>> (a whole total gives at most two decimals)
MaximumDeposit(total) == <<total \div 4, 25 * (total % 4)>>

\* the request arrives, its transaction opens, the router validates the amount,
\* const profile = await Profile.findByPk(profileId), and the check of its type;
\* the app keeps the balance it read here
DepBegin(r, caller, target, amount) ==
  /\ MayBegin(r)
  /\ LET rq == Arrive(r, [Idle EXCEPT !.op = "deposit", !.caller = caller,
                                      !.target = target, !.amount = amount])
     IN IF InvalidAmount(amount)
          THEN Reject(r, rq, "InvalidInput")
        ELSE IF NotClient(caller)
          THEN Reject(r, rq, "Forbidden")
        ELSE /\ req' = IF variant = "router"
                         THEN [rq EXCEPT ![r].pc = "findUser"]
                         ELSE [rq EXCEPT ![r].pc = "findAll",
                                         ![r].bal = Some(balance[caller])]
             /\ txStatus' = [txStatus EXCEPT ![r] = "open"]
             /\ UNCHANGED <<store, lockOwner, wBalance, wJob>>
  /\ UNCHANGED <<variant, clock, faults, balance0>>

\* a Deposit arrives and cannot open its transaction
DepRefused(r, caller, target, amount) ==
  /\ MayBegin(r)
  /\ Refused(r, Arrive(r, [Idle EXCEPT !.op = "deposit", !.caller = caller,
                                       !.target = target, !.amount = amount]))

\* const userProfile = await Profile.findByPk(userId), outside the transaction
DepFindUser(r) ==
  /\ req[r].op = "deposit" /\ req[r].pc = "findUser"
  /\ LET u == req[r].target
     IN req' = [req EXCEPT ![r].pc = "findAll",
                           ![r].bal = IF u \in Profiles THEN Some(balance[u]) ELSE None]
  /\ UNCHANGED <<variant, store, lockOwner, txStatus, wBalance, wJob, clock, faults, balance0>>

\* const unpaidJobs = await Job.findAll({.. transaction}), the limit check and
\* the in-memory `balance += amount` (a TypeError when userProfile is null)
DepFindAll(r) ==
  /\ req[r].op = "deposit" /\ req[r].pc = "findAll"
  /\ LET total == UnpaidTotal(DepositAccount(r))
     IN IF ExceedsLimit(req[r].amount, total)
          THEN Reject(r, [req EXCEPT ![r].total = total,
                                     ![r].maximumDeposit = Some(MaximumDeposit(total))],
                      "LimitExceeded")
        ELSE IF req[r].bal = None
          THEN Caught(r)
        ELSE /\ req' = [req EXCEPT ![r].pc = "save", ![r].total = total,
                                   ![r].bal = Some(Val(req[r].bal) + req[r].amount)]
             /\ UNCHANGED <<store, lockOwner, txStatus, wBalance, wJob>>
  /\ UNCHANGED <<variant, clock, faults, balance0>>

\* await profile.save({transaction})
DepSave(r) ==
  /\ req[r].op = "deposit" /\ req[r].pc = "save"
  /\ TxUpdateBalance(r, DepositAccount(r), Val(req[r].bal))
  /\ req' = [req EXCEPT ![r].pc = "commit"]
  /\ UNCHANGED <<variant, store, txStatus, wJob, clock, faults, balance0>>

\* await transaction.commit(); res.status(200).json(..)
DepCommit(r) ==
  /\ req[r].op = "deposit" /\ req[r].pc = "commit"
  /\ TxCommit(r)
  /\ req' = [req EXCEPT ![r] = Answered(req[r], "ok")]
  /\ UNCHANGED <<variant, clock, faults, balance0>>

\* ---- the reports: GET /admin/best-profession, GET /admin/best-clients ----------
\* query parameters are strings; a parameter that is not given is undefined
Undefined == "undefined"

\* the days `new Date(..)` can parse here, as days since the first
Day == ("2024-01-01" :> 0) @@ ("2024-01-02" :> 1)

\* instants in a day; the clock starts at 1, so the first payment is dated on
\* the first day and the second on the second
DayLength == 2

\* getTime() of an Invalid Date
NaN == 0 - 1

\* new Date(s).getTime(): midnight UTC of the day, NaN for any other string
ParseDate(s) == IF s \in DOMAIN Day THEN Day[s] * DayLength ELSE NaN

\* EndOfDay that leaves the instant where it is
SameInstant(t) == t

\* endDate.setUTCHours(23, 59, 59, 999); an Invalid Date stays one
EndOfDay(t) == IF t = NaN THEN NaN ELSE (t \div DayLength) * DayLength + DayLength - 1

\* if (!start || !end)
MissingDates(start, end) == start \in {Undefined, ""} \/ end \in {Undefined, ""}

\* InvalidDates that looks at the start date only
InvalidStart(start, end) == ParseDate(start) = NaN

\* if (isNaN(startDate.getTime()) || isNaN(endDate.getTime()))
InvalidDates(start, end) == ParseDate(start) = NaN \/ EndOfDay(ParseDate(end)) = NaN

\* the limits Number(..) can convert here
ToNumber == ("1" :> 1) @@ ("3" :> 3) @@ ("0" :> 0) @@ ("-1" :> 0 - 1)

\* if (isNaN(limit) || limit <= 0), after `limit = 2` for a limit not given
InvalidLimit(limit) ==
  limit # Undefined /\ (limit \notin DOMAIN ToNumber \/ ToNumber[limit] <= 0)

\* QueryLimit with every row let through
NoLimit(limit) == Cardinality(Jobs)

\* const {.., limit = 2} = req.query, and `limit: limit` of the query
QueryLimit(limit) == IF limit = Undefined THEN 2 ELSE ToNumber[limit]

\* PaidInWindow that also sees what open transactions have written
PaidInWindowDirty(s, e) ==
  {j \in Jobs : \/ /\ paid[j] /\ paymentDate[j] # None
                   /\ s <= Val(paymentDate[j]) /\ Val(paymentDate[j]) <= e
                \/ \E r \in Req : /\ wJob[r][j] # None
                                  /\ s <= Val(Val(wJob[r][j]).paymentDate)
                                  /\ Val(Val(wJob[r][j]).paymentDate) <= e}

\* where: {paymentDate: {[Op.between]: [startDate, endDate]}, paid: true}, read
\* from the committed rows
PaidInWindow(s, e) ==
  {j \in Jobs : /\ paid[j] /\ paymentDate[j] # None
                /\ s <= Val(paymentDate[j]) /\ Val(paymentDate[j]) <= e}

\* the value of a column of a row the join did not find
Null == "NULL"

\* include Contract, include Profile as 'Contractor' where {type: 'contractor'}:
\* the profession the job is grouped by
ContractorProfession(j) ==
  IF ProfileType[ContractorOf(j)] = "contractor" THEN Profession[ContractorOf(j)] ELSE Null

\* the jobs the joins leave in the result: the nested include with a where is
\* an inner join inside an outer join of Contract; keep tells whether a job
\* whose contractor does not match stays as a row without contractor
WithContractor(js, keep) ==
  {j \in js : keep \/ ProfileType[ContractorOf(j)] = "contractor"}

\* group: ['Contract.Contractor.profession'] with SUM(price) AS totalEarnings
ProfessionRows(js) ==
  {[profession |-> k,
    totalEarnings |-> SumPrices({j \in js : ContractorProfession(j) = k})] :
     k \in {ContractorProfession(j) : j \in js}}

\* Greatest with ASC for DESC
Least(rows) == {row \in rows : \A o \in rows : row.totalEarnings <= o.totalEarnings}

\* order: [[SUM(price), 'DESC']], limit: 1: a row no other row exceeds
Greatest(rows) == {row \in rows : \A o \in rows : row.totalEarnings >= o.totalEarnings}

\* what is kept of a report request: the query string, and the limit option of
\* the findAll it made, 0 if it made none
Query(op, start, end, limit, queryLimit) ==
  [Idle EXCEPT !.op = op, !.start = start, !.end = end, !.limit = limit,
               !.queryLimit = queryLimit]

\* the answers of a handler that is one awaited query: 400 on a bad query
\* string, else the outcome of the query, or 500 when the query throws
Respond(r, rq, invalid, found, bodies) ==
  /\ UNCHANGED <<variant, store, lockOwner, txStatus, wBalance, wJob, clock, balance0>>
  /\ IF invalid
       THEN req' = [rq EXCEPT ![r] = Answered(rq[r], "InvalidInput")] /\ faults' = faults
       ELSE \/ /\ faults' = faults
               /\ IF found
                    THEN \E b \in bodies :
                           req' = [rq EXCEPT ![r] = Answered([rq[r] EXCEPT !.body = Some(b)], "ok")]
                    ELSE req' = [rq EXCEPT ![r] = Answered(rq[r], "NotFound")]
            \/ /\ faults < MaxFaults
               /\ faults' = faults + 1
               /\ req' = [rq EXCEPT ![r] = Answered(rq[r], "Internal")]

\* GET /admin/best-profession?start=..&end=..
BestProfession(r, start, end) ==
  /\ MayBegin(r)
  /\ \E keep \in BOOLEAN :
       LET invalid == MissingDates(start, end) \/ InvalidDates(start, end)
           rq == Arrive(r, Query("bestProfession", start, end, Undefined,
                                 IF invalid THEN 0 ELSE 1))
           js == IF invalid THEN {}
                 ELSE WithContractor(PaidInWindow(ParseDate(start), EndOfDay(ParseDate(end))),
                                     keep)
           rows == ProfessionRows(js)
       IN Respond(r, rq, invalid, rows # {}, Greatest(rows))

\* include Profile as 'Client' where {type: 'client'}: the client the job is
\* grouped by, 0 for none
ClientId(j) == IF ProfileType[ClientOf(j)] = "client" THEN ClientOf(j) ELSE 0

WithClient(js, keep) == {j \in js : keep \/ ProfileType[ClientOf(j)] = "client"}

\* group: ['Contract.Client.id', 'Contract.Client.firstName',
\* 'Contract.Client.lastName'] with SUM(price) AS totalEarnings
ClientRows(js) ==
  {[id |-> c,
    firstName |-> IF c = 0 THEN Null ELSE FirstName[c],
    lastName |-> IF c = 0 THEN Null ELSE LastName[c],
    totalEarnings |-> SumPrices({j \in js : ClientId(j) = c})] :
     c \in {ClientId(j) : j \in js}}

Min(a, b) == IF a <= b THEN a ELSE b

\* order: [[SUM(price), 'DESC']], limit: the sequences of n of the rows, in
\* non-increasing order of total, that no row left out exceeds
TopRows(rows, n) ==
  LET len == Min(n, Cardinality(rows))
  IN {q \in [1..len -> rows] :
        /\ \A i, k \in 1..len : i < k =>
               q[i] # q[k] /\ q[i].totalEarnings >= q[k].totalEarnings
        /\ \A o \in rows : (\A i \in 1..len : q[i] # o) =>
               \A i \in 1..len : q[i].totalEarnings >= o.totalEarnings}

\* jobs.map(job => ({id, fullName: `${firstName} ${lastName}`, paid: totalEarnings}))
BestClientsBody(q) ==
  [i \in DOMAIN q |-> [id |-> q[i].id,
                       fullName |-> <<q[i].firstName, " ", q[i].lastName>>,
                       paid |-> q[i].totalEarnings]]

\* GET /admin/best-clients?start=..&end=..&limit=..
BestClients(r, start, end, limit) ==
  /\ MayBegin(r)
  /\ \E keep \in BOOLEAN :
       LET invalid == MissingDates(start, end) \/ InvalidDates(start, end)
                        \/ InvalidLimit(limit)
           rq == Arrive(r, Query("bestClients", start, end, limit,
                                 IF invalid THEN 0 ELSE QueryLimit(limit)))
           js == IF invalid THEN {}
                 ELSE WithClient(PaidInWindow(ParseDate(start), EndOfDay(ParseDate(end))),
                                 keep)
           rows == ClientRows(js)
           tops == IF invalid THEN {} ELSE TopRows(rows, QueryLimit(limit))
       IN Respond(r, rq, invalid, rows # {}, {BestClientsBody(q) : q \in tops})

\* ---- the contracts: GET /contracts/:id, GET /contracts ---------------------------
\* res.json(contract): the row with its id
ContractRow(c) == [id |-> c, ClientId |-> Contract[c].ClientId,
                   ContractorId |-> Contract[c].ContractorId, status |-> Contract[c].status]

\* OfProfile with the condition on the ContractorId left out
OfClient(c, profileId) == Contract[c].ClientId = profileId

\* [Op.or]: [{ClientId: profileId}, {ContractorId: profileId}]
OfProfile(c, profileId) ==
  Contract[c].ClientId = profileId \/ Contract[c].ContractorId = profileId

\* GET /contracts/:id
GetContract(r, caller, id) ==
  /\ MayBegin(r)
  /\ LET rq == Arrive(r, [Idle EXCEPT !.op = "getContract", !.caller = caller, !.id = id])
         found == id \in Contracts /\ OfProfile(id, caller)
     IN Respond(r, rq, FALSE, found, {ContractRow(id)})

\* NotTerminated that lets every status through
AnyStatus(c) == TRUE

\* status: {[Op.ne]: 'terminated'}
NotTerminated(c) == Contract[c].status # "terminated"

\* GET /contracts: the rows of Contract.findAll, in whatever order
GetContracts(r, caller) ==
  /\ MayBegin(r)
  /\ LET rq == Arrive(r, [Idle EXCEPT !.op = "getContracts", !.caller = caller])
     IN Respond(r, rq, FALSE, TRUE,
                {{ContractRow(c) : c \in {x \in Contracts : NotTerminated(x) /\ OfProfile(x, caller)}}})

\* ---- the jobs: GET /jobs/unpaid ---------------------------------------------------
\* res.json(jobs): the row of a job with its id
JobRow(j) == [id |-> j, ContractId |-> Job[j].ContractId, price |-> Job[j].price]

\* NotPaid that lets paid jobs through
PaidOrNot(j) == TRUE

\* where: {paid: {[Op.not]: true}}, read from the committed rows
NotPaid(j) == ~paid[j]

\* GET /jobs/unpaid: the rows of Job.findAll, in whatever order
GetUnpaid(r, caller) ==
  /\ MayBegin(r)
  /\ LET rq == Arrive(r, [Idle EXCEPT !.op = "getUnpaid", !.caller = caller])
     IN Respond(r, rq, FALSE, TRUE,
                {{JobRow(j) : j \in {x \in Jobs : /\ NotPaid(x)
                                                  /\ NotTerminated(Job[x].ContractId)
                                                  /\ OfProfile(Job[x].ContractId, caller)}}})

\* the callers of GET /jobs/unpaid among the handlers that pay and deposit
UnpaidInputs == {1, 2, 3}

Next ==
  \E r \in Req :
    \/ \E in \in PayInputs : PayBegin(r, in[1], in[2])
    \/ PayFindJob(r)
    \/ PaySaveClient(r)
    \/ PaySaveContractor(r)
    \/ PaySaveJob(r)
    \/ PayCommit(r)
    \/ \E in \in DepositInputs : DepBegin(r, in[1], in[2], in[3])
    \/ DepFindUser(r)
    \/ DepFindAll(r)
    \/ DepSave(r)
    \/ DepCommit(r)
    \/ Throw(r)
    \/ \E in \in PayInputs : PayRefused(r, in[1], in[2])
    \/ \E in \in DepositInputs : DepRefused(r, in[1], in[2], in[3])
    \/ BestProfession(r, "2024-01-01", "2024-01-02")
    \/ BestClients(r, "2024-01-01", "2024-01-02", Undefined)
    \/ \E caller \in UnpaidInputs : GetUnpaid(r, caller)

Spec == Init /\ [][Next]_vars

\* the steps of request r that follow its arrival, without a store call throwing
Step(r) ==
  \/ PayFindJob(r) \/ PaySaveClient(r) \/ PaySaveContractor(r) \/ PaySaveJob(r)
  \/ PayCommit(r)
  \/ DepFindUser(r) \/ DepFindAll(r) \/ DepSave(r) \/ DepCommit(r)

\* the event loop runs every handler whose awaited store call can return
FairSpec == Spec /\ \A r \in Req : WF_vars(Step(r))

\* ---- the GET handlers over the stores that payments leave ----------------------
NoDates == [j \in Jobs |-> None]

\* stores after no payment, after one and after two: the first balances, the
\* balances now, and the paymentDate of every paid job
PaidStores ==
  { [first |-> InitialBalance, balance |-> InitialBalance, date |-> NoDates],
    [first |-> InitialBalance,
     balance |-> (1 :> 100) @@ (2 :> 50) @@ (3 :> 120) @@ (4 :> 0),
     date |-> (2 :> Some(1)) @@ NoDates],
    [first |-> FundedBalance,
     balance |-> (1 :> 100) @@ (2 :> 50) @@ (3 :> 120) @@ (4 :> 100),
     date |-> (2 :> Some(1)) @@ (4 :> Some(2)) @@ NoDates],
    [first |-> InitialBalance,
     balance |-> (1 :> 220) @@ (2 :> 100) @@ (3 :> 0) @@ (4 :> 0),
     date |-> (5 :> Some(1)) @@ NoDates],
    [first |-> InitialBalance,
     balance |-> (1 :> 0) @@ (2 :> 50) @@ (3 :> 220) @@ (4 :> 0),
     date |-> (1 :> Some(1)) @@ (2 :> Some(2)) @@ NoDates],
    [first |-> FundedBalance,
     balance |-> (1 :> 120) @@ (2 :> 50) @@ (3 :> 100) @@ (4 :> 100),
     date |-> (4 :> Some(1)) @@ (1 :> Some(2)) @@ NoDates],
    [first |-> InitialBalance,
     balance |-> (1 :> 220) @@ (2 :> 0) @@ (3 :> 0) @@ (4 :> 100),
     date |-> (5 :> Some(1)) @@ (4 :> Some(2)) @@ NoDates] }

\* the store is one that payments have left, and no request has arrived
GetInit ==
  /\ variant \in {"app", "router"}
  /\ \E st \in PaidStores :
       /\ balance = st.balance
       /\ balance0 = st.first
       /\ paymentDate = st.date
       /\ paid = [j \in Jobs |-> st.date[j] # None]
       /\ clock = 1 + Cardinality({j \in Jobs : st.date[j] # None})
  /\ lockOwner = [row \in Rows |-> 0]
  /\ txStatus = [r \in Req |-> "none"]
  /\ wBalance = [r \in Req |-> NoWrites.balance]
  /\ wJob = [r \in Req |-> NoWrites.job]
  /\ req = [r \in Req |-> Idle]
  /\ faults = 0

\* query strings: both days, one day, the days inverted, a date missing, a date
\* that does not parse
ProfessionInputs ==
  {<<"2024-01-01", "2024-01-02">>, <<"2024-01-01", "2024-01-01">>,
   <<"2024-01-02", "2024-01-02">>, <<"2024-01-02", "2024-01-01">>,
   <<Undefined, "2024-01-02">>, <<"2024-01-01", Undefined>>,
   <<"invalid-date", "2024-01-02">>, <<"2024-01-01", "invalid-date">>}

\* the same with a limit: none, 1, 3, 0, -1, not a number
ClientsInputs ==
  {<<"2024-01-01", "2024-01-02", Undefined>>, <<"2024-01-01", "2024-01-02", "1">>,
   <<"2024-01-01", "2024-01-02", "3">>, <<"2024-01-01", "2024-01-02", "0">>,
   <<"2024-01-01", "2024-01-02", "-1">>, <<"2024-01-01", "2024-01-02", "abc">>,
   <<"2024-01-01", "2024-01-01", Undefined>>, <<"2024-01-02", "2024-01-02", "1">>,
   <<"2024-01-02", "2024-01-01", Undefined>>, <<Undefined, "2024-01-02", "1">>,
   <<"2024-01-01", "invalid-date", "1">>, <<"2024-01-01", Undefined, "abc">>}

GetNext ==
  \E r \in Req :
    \/ \E in \in ProfessionInputs : BestProfession(r, in[1], in[2])
    \/ \E in \in ClientsInputs : BestClients(r, in[1], in[2], in[3])
    \/ \E caller \in Profiles, id \in Contracts \cup {0} : GetContract(r, caller, id)
    \/ \E caller \in Profiles : GetContracts(r, caller)
    \/ \E caller \in Profiles : GetUnpaid(r, caller)

GetSpec == GetInit /\ [][GetNext]_vars

\* ---- properties ---------------------------------------------------------------
Pays(r) == req[r].op = "pay"
Deposits(r) == req[r].op = "deposit"
Succeeded(r) == req[r].result = "ok"
\* the step in which request r is answered with success (its commit)
Succeeds(r) == req[r].result = "none" /\ req'[r].result = "ok"
AllDone == \A r \in Req : Done(r)

\* C1: every successful PayJob takes the job's price from the balance of the
\* paying client and adds it to the balance of the contract's contractor.
C1_Conservation ==
  [][\A r \in Req : Pays(r) /\ Succeeds(r) =>
        LET j == req[r].job
        IN /\ balance'[ClientOf(j)] = balance[ClientOf(j)] - Job[j].price
           /\ balance'[ContractorOf(j)] = balance[ContractorOf(j)] + Job[j].price]_vars

\* C1, for the contracts whose client and contractor are two profiles: the
\* transfer is exact.
ConservationBetweenTwoProfiles ==
  [][\A r \in Req : Pays(r) /\ Succeeds(r) =>
        LET j == req[r].job
        IN ClientOf(j) # ContractorOf(j) =>
             /\ balance'[ClientOf(j)] = balance[ClientOf(j)] - Job[j].price
             /\ balance'[ContractorOf(j)] = balance[ContractorOf(j)] + Job[j].price]_vars

\* C2: no committed balance is ever negative.
C2_NonNegative == \A p \in Profiles : balance[p] >= 0

\* C2, for the router, which rejects amounts that are not positive.
NonNegativeInRouter == variant = "router" => \A p \in Profiles : balance[p] >= 0

\* C3: at most one PayJob call per job is answered with success, and at most one
\* PayJob transaction per job (hence one debit of its price) is committed.
C3_AtMostOnePayment ==
  \A j \in Jobs :
    /\ Cardinality({r \in Req : Pays(r) /\ req[r].job = j /\ Succeeded(r)}) <= 1
    /\ Cardinality({r \in Req : Pays(r) /\ req[r].job = j /\ txStatus[r] = "committed"}) <= 1

\* two overlapping calls for job 1 by its client are answered, one with success
C3_Witness ==
  \E r, q \in Req :
    /\ r # q /\ Pays(r) /\ Pays(q) /\ req[r].job = 1 /\ req[q].job = 1
    /\ req[r].caller = 1 /\ req[q].caller = 1
    /\ ~req[r].solo /\ ~req[q].solo
    /\ Succeeded(r) /\ Done(q)

\* C4: when every request is a PayJob by the owning client for one and the same
\* job, unpaid at first and within the client's balance, and no store call has
\* thrown, then once all are answered exactly one has succeeded, the others got
\* NotFound, and the job is paid.
C4_ExactlyOnce ==
  \A j \in Jobs :
    ( /\ AllDone /\ faults = 0
      /\ \A r \in Req : Pays(r) /\ req[r].job = j /\ req[r].caller = ClientOf(j)
      /\ Contract[Job[j].ContractId].status # "terminated"
      /\ balance0[ClientOf(j)] >= Job[j].price )
    => /\ Cardinality({r \in Req : Succeeded(r)}) = 1
       /\ \A r \in Req : req[r].result \in {"ok", "NotFound"}
       /\ paid[j]

\* all the calls for job 2 by its client overlapped and are answered
C4_Witness ==
  /\ AllDone /\ faults = 0
  /\ \A r \in Req : Pays(r) /\ req[r].job = 2 /\ req[r].caller = 1 /\ ~req[r].solo
  /\ \E r \in Req : req[r].result = "NotFound"

\* the committed balances after the transfer for job j: price-for-price between
\* two profiles; a contract naming one profile on both sides keeps the later
\* of the handler's two saves
Transferred(j) ==
  IF ClientOf(j) # ContractorOf(j)
    THEN /\ balance'[ClientOf(j)] = balance[ClientOf(j)] - Job[j].price
         /\ balance'[ContractorOf(j)] = balance[ContractorOf(j)] + Job[j].price
    ELSE balance'[ClientOf(j)] = balance[ClientOf(j)] + Job[j].price

\* C5: the committed store never shows a part of a payment: a step that changes
\* paid or paymentDate of a job sets both and moves the money in the same step,
\* and a step that changes a balance is either the commit of a Deposit or sets
\* one job paid and changes the balances of that job's two profiles only; a
\* store call that throws after the first save changes nothing.
C5_AllOrNothing ==
  [][/\ \A j \in Jobs :
          (paid'[j] # paid[j] \/ paymentDate'[j] # paymentDate[j]) =>
             paid'[j] /\ paymentDate'[j] # None /\ Transferred(j)
     /\ balance' # balance =>
          \/ \E r \in Req : Deposits(r) /\ Succeeds(r)
          \/ \E j \in Jobs :
               /\ ~paid[j] /\ paid'[j] /\ paymentDate'[j] # None /\ Transferred(j)
               /\ \A p \in Profiles \ {ClientOf(j), ContractorOf(j)} :
                    balance'[p] = balance[p]
     /\ (\E r \in Req : Pays(r) /\ req'[r].result = "Internal" /\ req[r].result = "none")
          => store' = store]_vars

\* a PayJob was answered 500 after a store call threw behind the save of the
\* client's balance (the app leaves that write in its open transaction), and the
\* committed store is as it was
C5_Witness ==
  \E r \in Req : /\ Pays(r) /\ req[r].result = "Internal" /\ req[r].job \in Jobs
                 /\ wBalance[r][ClientOf(req[r].job)] # None
                 /\ balance = balance0 /\ \A j \in Jobs : ~paid[j]

\* C6: a paid job stays paid and keeps its paymentDate (no handler writes a
\* price: Job[j].price is fixed).
C6_PaidIsFinal ==
  [][\A j \in Jobs : paid[j] => paid'[j] /\ paymentDate'[j] = paymentDate[j]]_vars

\* a job is paid and a later PayJob for it by its client has been turned away
C6_Witness ==
  \E r, q \in Req :
    /\ Pays(r) /\ Pays(q) /\ req[r].job = req[q].job /\ req[r].caller = req[q].caller
    /\ Succeeded(r) /\ req[q].result = "NotFound" /\ req[q].solo
    /\ paid[req[r].job]

\* the Deposit handlers that credit the userId of the path: the router, and the
\* app when the caller is that user
CreditsTarget(r) == variant = "router" \/ req[r].caller = req[r].target

OnlyDeposits == \A r \in Req : req[r].op \in {"none", "deposit"}

\* C8 as stated: concurrent deposits for one target against one unpaid-job set
\* credit in total no more than the ceiling.
C8_JointCeiling ==
  \A t \in Profiles :
    (OnlyDeposits /\ \A r \in Req : Deposits(r) => req[r].target = t /\ ~req[r].solo)
      => 4 * (balance[t] - balance0[t]) <= UnpaidTotal(t)

\* C8 as amended: while only deposits run (so the unpaid-job set stays the
\* same), every Deposit that succeeds has an amount of at most the ceiling of
\* the profile it credits.
C8_EachWithinCeiling ==
  [][\A r \in Req : OnlyDeposits /\ Deposits(r) /\ Succeeds(r) =>
        4 * req[r].amount <= UnpaidTotal(DepositAccount(r))]_vars

\* two overlapping deposits of 75 for client 1 both succeeded: 150 against a
\* ceiling of 75
C8_Witness ==
  /\ OnlyDeposits /\ UnpaidTotal(1) = 300
  /\ \A r \in Req : /\ Deposits(r) /\ ~req[r].solo /\ Succeeded(r)
                    /\ req[r].target = 1 /\ req[r].caller = 1 /\ req[r].amount = 75

\* C9: a Deposit of the router succeeds only if its amount is within the
\* ceiling as the target's unpaid total stands when the Deposit commits.
C9_CeilingAtCommit ==
  [][\A r \in Req : variant = "router" /\ Deposits(r) /\ Succeeds(r) =>
        4 * req[r].amount <= UnpaidTotal(req[r].target)]_vars

\* the step in which PayJob r gets the answer of Job.findOne
FindsJob(r) == Pays(r) /\ req[r].pc = "findJob" /\ req'[r].pc # "findJob" /\ faults' = faults

\* C10: a PayJob whose job is found is turned away with InsufficientFunds iff
\* the client's balance is below the price; then the store is unchanged and the
\* transaction rolled back; a balance equal to the price pays and leaves 0.
C10_InsufficientFunds ==
  [][\A r \in Req :
       LET j == req[r].job
       IN /\ FindsJob(r) /\ JobMatches(j, req[r].caller) =>
               /\ req'[r].result = "InsufficientFunds" <=> balance[ClientOf(j)] < Job[j].price
               /\ req'[r].result = "InsufficientFunds" =>
                     store' = store /\ txStatus'[r] = "rolledback"
          /\ Pays(r) /\ Succeeds(r) /\ balance[ClientOf(j)] = Job[j].price =>
               balance'[ClientOf(j)] = 0]_vars

\* C10, with the last part for contracts between two profiles.
InsufficientFundsBetweenTwoProfiles ==
  [][\A r \in Req :
       LET j == req[r].job
       IN /\ FindsJob(r) /\ JobMatches(j, req[r].caller) =>
               /\ req'[r].result = "InsufficientFunds" <=> balance[ClientOf(j)] < Job[j].price
               /\ req'[r].result = "InsufficientFunds" =>
                     store' = store /\ txStatus'[r] = "rolledback"
          /\ ( /\ Pays(r) /\ Succeeds(r) /\ balance[ClientOf(j)] = Job[j].price
               /\ ClientOf(j) # ContractorOf(j) )
             => balance'[ClientOf(j)] = 0]_vars

\* the step in which request r arrives, no store call throwing in it
Arrives(r) == req[r].op = "none" /\ req'[r].op # "none" /\ faults' = faults

\* C11: a PayJob whose caller is no client is answered Forbidden at once, for
\* every job id (a job, a paid job, no job), and the step changes no balance
\* and no job.
C11_PayForbidden ==
  [][\A r \in Req :
       Arrives(r) /\ req'[r].op = "pay" /\ ProfileType[req'[r].caller] # "client"
         => req'[r].result = "Forbidden" /\ Done(r)' /\ store' = store]_vars

\* job 1 is paid, and the contractor's PayJob for it was answered Forbidden
C11_Witness ==
  /\ paid[1]
  /\ \E r \in Req : /\ Pays(r) /\ req[r].caller = 3 /\ req[r].job = 1
                    /\ req[r].result = "Forbidden"
                    /\ \E q \in Req : q < r /\ Pays(q) /\ Succeeded(q) /\ req[q].job = 1

\* C12: when Job.findOne answers a client's PayJob whose job does not exist, is
\* paid, belongs to a terminated contract or to a contract of another client,
\* the answer is NotFound and carries nothing of the job, the store is
\* unchanged and the transaction is rolled back.
C12_NotFound ==
  [][\A r \in Req :
       LET j == req[r].job
       IN ( /\ FindsJob(r) /\ ProfileType[req[r].caller] = "client"
            /\ \/ j \notin Jobs
               \/ paid[j]
               \/ Contract[Job[j].ContractId].status = "terminated"
               \/ ClientOf(j) # req[r].caller )
          => /\ req'[r].result = "NotFound"
             /\ req'[r].price = 0 /\ req'[r].cliBal = 0 /\ req'[r].conBal = 0
             /\ store' = store /\ txStatus'[r] = "rolledback"]_vars

\* client 1 got NotFound for a job of its terminated contract, and for a job of
\* another client's contract
C12_Witness ==
  \E r, q \in Req :
    /\ Pays(r) /\ req[r].caller = 1 /\ req[r].job = 3 /\ req[r].result = "NotFound"
    /\ Pays(q) /\ req[q].caller = 1 /\ req[q].job = 4 /\ req[q].result = "NotFound"

\* the step in which Deposit r gets the answer of Job.findAll
AnswersFindAll(r) ==
  Deposits(r) /\ req[r].pc = "findAll" /\ req'[r].pc # "findAll" /\ faults' = faults

AnsweredInTransaction(r) ==
  Done(r) /\ (Pays(r) \/ Deposits(r)) /\ req[r].result # "Unhandled"

\* C14: every answered PayJob and Deposit has closed the transaction it
\* opened: committed when the answer is success, rolled back otherwise.
C14_TransactionClosed ==
  \A r \in Req : AnsweredInTransaction(r) =>
    /\ txStatus[r] \in {"committed", "rolledback"}
    /\ txStatus[r] = "committed" <=> Succeeded(r)

\* C14, for the router handlers, which roll back on every path that fails.
TransactionClosedInRouter ==
  variant = "router" =>
    \A r \in Req : AnsweredInTransaction(r) =>
      /\ txStatus[r] \in {"committed", "rolledback"}
      /\ txStatus[r] = "committed" <=> Succeeded(r)

\* requests r and q are the only ones so far, both answered with no store call
\* having thrown: PayJob calls by one client for two of its jobs, neither of a
\* terminated contract, that its first balance covers together
TwoPayments(r, q) ==
  /\ r # q /\ Done(r) /\ Done(q) /\ faults = 0
  /\ \A o \in Req \ {r, q} : req[o].op = "none"
  /\ Pays(r) /\ Pays(q) /\ req[r].caller = req[q].caller
  /\ req[r].job \in Jobs /\ req[q].job \in Jobs /\ req[r].job # req[q].job
  /\ \A j \in {req[r].job, req[q].job} :
       /\ ClientOf(j) = req[r].caller
       /\ Contract[Job[j].ContractId].status # "terminated"
  /\ balance0[req[r].caller] >= Job[req[r].job].price + Job[req[q].job].price

\* both calls succeeded, the client has paid both prices and every other
\* profile has got the prices of the jobs it is the contractor of
BothPaid(r, q) ==
  LET c == req[r].caller
      js == {req[r].job, req[q].job}
  IN /\ Succeeded(r) /\ Succeeded(q)
     /\ balance[c] = balance0[c] - Job[req[r].job].price - Job[req[q].job].price
     /\ \A k \in Profiles \ {c} :
          balance[k] = balance0[k] + SumPrices({j \in js : ContractorOf(j) = k})

\* C15: two PayJob calls by one client for two different unpaid jobs, with a
\* balance of at least both prices, both succeed, whatever their interleaving,
\* and leave the client at its first balance less both prices and each
\* contractor credited.
C15_TwoJobs == \A r, q \in Req : TwoPayments(r, q) => BothPaid(r, q)

\* C15, for contracts whose client and contractor are two profiles.
TwoJobsBetweenTwoProfiles ==
  \A r, q \in Req :
    ( /\ TwoPayments(r, q)
      /\ \A j \in {req[r].job, req[q].job} : ClientOf(j) # ContractorOf(j) )
    => BothPaid(r, q)

\* client 1 has paid jobs 1 and 2 by two calls that overlapped
TwoJobsOverlapped ==
  \E r, q \in Req : /\ TwoPayments(r, q) /\ ~req[r].solo /\ ~req[q].solo
                    /\ req[r].caller = 1 /\ BothPaid(r, q)

\* C16: under fair scheduling every request in flight is answered in the end.
C16_EveryOperationReturns == \A r \in Req : InFlight(r) ~> Done(r)

\* C16, for the router handlers, whose every exit closes the transaction.
ReturnsInRouter == \A r \in Req : (variant = "router" /\ InFlight(r)) ~> Done(r)

\* C16, for the app handlers as long as no store call throws.
ReturnsInAppUnlessThrown ==
  \A r \in Req : (variant = "app" /\ InFlight(r)) ~> (Done(r) \/ faults > 0)

\* C17: a Deposit with a positive amount whose caller is no client is answered
\* Forbidden at once, whatever its target, its transaction is rolled back and
\* the step changes nothing in the store.
C17_DepositForbidden ==
  [][\A r \in Req :
       ( /\ Arrives(r) /\ req'[r].op = "deposit" /\ req'[r].amount > 0
         /\ ProfileType[req'[r].caller] # "client" )
       => /\ req'[r].result = "Forbidden" /\ Done(r)'
          /\ store' = store /\ txStatus'[r] = "rolledback"]_vars

\* the contractor's Deposit of 75 for client 1 was answered Forbidden while the
\* unpaid total of client 1 allowed 75
C17_Witness ==
  /\ UnpaidTotal(1) = 300
  /\ \E r \in Req : /\ Deposits(r) /\ req[r].caller = 3 /\ req[r].target = 1
                    /\ req[r].amount = 75 /\ req[r].result = "Forbidden"

\* C18: a Deposit whose amount is zero or negative is answered InvalidInput at
\* once with the store unchanged, and no Deposit that succeeds lowers a balance.
C18_InvalidAmount ==
  [][\A r \in Req :
       /\ Arrives(r) /\ req'[r].op = "deposit" /\ req'[r].amount <= 0
            => req'[r].result = "InvalidInput" /\ store' = store
       /\ Deposits(r) /\ Succeeds(r)
            => \A p \in Profiles : balance'[p] >= balance[p]]_vars

\* C18, for the router, which validates the amount before anything else.
InvalidAmountInRouter ==
  [][\A r \in Req :
       variant = "router" /\ Arrives(r) /\ req'[r].op = "deposit" /\ req'[r].amount <= 0
         => req'[r].result = "InvalidInput" /\ store' = store
                                            /\ txStatus'[r] = "rolledback"]_vars

C20_PayJobFrame ==
  [][/\ store' # store => \E r \in Req : Succeeds(r)
     /\ \A r \in Req : Pays(r) /\ Succeeds(r) =>
          LET j == req[r].job
          IN /\ j \in Jobs /\ ClientOf(j) = req[r].caller
             /\ \A p \in Profiles \ {ClientOf(j), ContractorOf(j)} : balance'[p] = balance[p]
             /\ \A k \in Jobs \ {j} : paid'[k] = paid[k] /\ paymentDate'[k] = paymentDate[k]
     /\ DOMAIN balance' = Profiles /\ DOMAIN paid' = Jobs /\ DOMAIN paymentDate' = Jobs]_vars

\* job 1 is paid by client 1: profile 2 has its first balance and no other job
\* is paid
C20_Witness ==
  /\ paid[1] /\ paymentDate[1] # None
  /\ balance[1] = balance0[1] - 100 /\ balance[3] = balance0[3] + 100
  /\ balance[2] = balance0[2]
  /\ \A k \in Jobs \ {1} : ~paid[k] /\ paymentDate[k] = None
  /\ \E r \in Req : Pays(r) /\ req[r].job = 1 /\ Succeeded(r)

\* C21: the step in which a Deposit succeeds adds its amount to the balance of
\* its target and changes no other balance and no job.
C21_DepositFrame ==
  [][\A r \in Req : Deposits(r) /\ Succeeds(r) =>
        LET t == req[r].target
        IN /\ t \in Profiles
           /\ balance'[t] = balance[t] + req[r].amount
           /\ \A p \in Profiles \ {t} : balance'[p] = balance[p]
           /\ paid' = paid /\ paymentDate' = paymentDate]_vars

\* C21, for the router: a Deposit that succeeds changes the balance of its
\* target only, and by its amount when no other request ran beside it.
DepositFrameInRouter ==
  [][\A r \in Req : variant = "router" /\ Deposits(r) /\ Succeeds(r) =>
        LET t == req[r].target
        IN /\ t \in Profiles
           /\ req[r].solo => balance'[t] = balance[t] + req[r].amount
           /\ \A p \in Profiles \ {t} : balance'[p] = balance[p]
           /\ paid' = paid /\ paymentDate' = paymentDate]_vars

\* the step in which report r is asked and answered, its query not throwing
Reports(r) ==
  /\ Arrives(r) /\ req'[r].op \in {"bestProfession", "bestClients"}
  /\ req'[r].result \in {"ok", "NotFound"}

\* the jobs whose payment is committed
CommittedJobs ==
  {j \in Jobs : \E q \in Req : Pays(q) /\ req[q].job = j /\ txStatus[q] = "committed"}

\* C22: a report over the whole time counts the jobs of the committed PayJob
\* transactions and no others, whatever other transactions have written so
\* far: every total it gives is the sum of the prices of the committed jobs of
\* its group, and it answers NotFound only if no committed job has a
\* contractor (a client) for it to group by.
C22_ReportSeesCommitted ==
  [][\A r \in Req : Reports(r) =>
       /\ (req'[r].op = "bestProfession" /\ req'[r].result = "ok") =>
            LET b == Val(req'[r].body)
            IN b.totalEarnings =
                 SumPrices({j \in CommittedJobs : ContractorProfession(j) = b.profession})
       /\ (req'[r].op = "bestClients" /\ req'[r].result = "ok") =>
            LET b == Val(req'[r].body)
            IN \A i \in DOMAIN b :
                 b[i].paid = SumPrices({j \in CommittedJobs : ClientId(j) = b[i].id})
       /\ (req'[r].op = "bestProfession" /\ req'[r].result = "NotFound") =>
            \A j \in CommittedJobs : ProfileType[ContractorOf(j)] # "contractor"
       /\ (req'[r].op = "bestClients" /\ req'[r].result = "NotFound") =>
            CommittedJobs = {}]_vars

\* a report that arrived beside a PayJob was answered NotFound, and the PayJob
\* has saved its job as paid and not committed yet
C22_Witness ==
  \E q, r \in Req :
    /\ Pays(q) /\ InFlight(q) /\ req[q].job \in Jobs /\ wJob[q][req[q].job] # None
    /\ req[r].op = "bestProfession" /\ ~req[r].solo /\ req[r].result = "NotFound"

\* the step in which PayJob or Deposit r arrives and cannot open its transaction
CannotBegin(r) ==
  req[r].op = "none" /\ req'[r].op \in {"pay", "deposit"} /\ faults' # faults

\* C23: a PayJob or Deposit that cannot open its transaction is answered Busy,
\* and nothing changes.
C23_Busy ==
  [][\A r \in Req : CannotBegin(r) =>
        req'[r].result = "Busy" /\ store' = store]_vars

\* C23, without the outcome: such a request changes nothing in the store, holds
\* no lock and has no transaction.
RefusedChangesNothing ==
  [][\A r \in Req : CannotBegin(r) =>
        /\ store' = store /\ lockOwner' = lockOwner
        /\ txStatus'[r] = "none" /\ Done(r)']_vars

\* no PayJob and no Deposit is ever answered Busy
NeverBusy == \A r \in Req : req[r].result # "Busy"

\* the step in which a GET request r of kind op is asked and answered, its
\* query not throwing
Gets(r, op) == Arrives(r) /\ req'[r].op = op

\* the query string names two days
TwoDays(r) == req'[r].start \in DOMAIN Day /\ req'[r].end \in DOMAIN Day

\* the jobs with paid = true and paymentDate from the first instant of the day
\* start to the last instant of the day end
InDays(start, end) ==
  {j \in Jobs : /\ paid[j] /\ paymentDate[j] # None
                /\ Day[start] * DayLength <= Val(paymentDate[j])
                /\ Val(paymentDate[j]) < (Day[end] + 1) * DayLength}

\* the total price of the jobs js whose contractor has profession p
Earned(p, js) == SumPrices({j \in js : Profession[ContractorOf(j)] = p})

BestProfessionOfContractors ==
  [][\A r \in Req : Gets(r, "bestProfession") /\ TwoDays(r) =>
       LET js == InDays(req'[r].start, req'[r].end)
       IN (\A j \in js : ProfileType[ContractorOf(j)] = "contractor") =>
          IF js = {} THEN req'[r].result = "NotFound"
          ELSE /\ req'[r].result = "ok"
               /\ LET b == Val(req'[r].body)
                  IN /\ b.profession \in {Profession[ContractorOf(j)] : j \in js}
                     /\ b.totalEarnings = Earned(b.profession, js)
                     /\ \A j \in js : Earned(Profession[ContractorOf(j)], js) <= b.totalEarnings]_vars

\* over both days, with job 2 (120, a programmer's) and job 4 (100, a
\* musician's) paid, the answer was programmer with 120
BestProfessionOfTwo ==
  /\ paid[2] /\ paid[4]
  /\ \E r \in Req : /\ req[r].op = "bestProfession" /\ req[r].result = "ok"
                    /\ req[r].start = "2024-01-01" /\ req[r].end = "2024-01-02"
                    /\ Val(req[r].body) = [profession |-> "programmer", totalEarnings |-> 120]

\* the limit a query string asks for: 2 when it names none
AskedLimit(r) == IF req'[r].limit = Undefined THEN 2 ELSE ToNumber[req'[r].limit]

\* the query string names two days and, if any, a positive limit
TwoDaysAndLimit(r) ==
  /\ TwoDays(r)
  /\ req'[r].limit # Undefined => (req'[r].limit \in DOMAIN ToNumber /\ ToNumber[req'[r].limit] > 0)

\* the total price of the jobs js whose client is c
PaidBy(c, js) == SumPrices({j \in js : ClientOf(j) = c})

\* b lists clients of the jobs js, each once with its name and its total, in
\* non-increasing order of total; it has limit entries or all the clients if
\* they are fewer, and no client left out has a greater total than one listed
ListsBestClients(b, js, limit) ==
  LET clients == {ClientOf(j) : j \in js}
  IN /\ Len(b) = IF Cardinality(clients) < limit THEN Cardinality(clients) ELSE limit
     /\ \A i \in DOMAIN b :
          /\ b[i].id \in clients
          /\ b[i].fullName = <<FirstName[b[i].id], " ", LastName[b[i].id]>>
          /\ b[i].paid = PaidBy(b[i].id, js)
     /\ \A i, k \in DOMAIN b : i < k => b[i].id # b[k].id /\ b[i].paid >= b[k].paid
     /\ \A c \in clients : (\A i \in DOMAIN b : b[i].id # c) =>
          \A i \in DOMAIN b : b[i].paid >= PaidBy(c, js)

\* C25 as stated: BestClients over two days succeeds with the list of the best
\* clients of the window, which is empty when no paid job falls in the window.
C25_BestClients ==
  [][\A r \in Req : Gets(r, "bestClients") /\ TwoDaysAndLimit(r) =>
       /\ req'[r].result = "ok"
       /\ ListsBestClients(Val(req'[r].body), InDays(req'[r].start, req'[r].end),
                           AskedLimit(r))]_vars

\* C25 as amended: BestClients over two days answers NotFound when no paid job
\* falls in the window, and otherwise succeeds with the list of the best
\* clients of the window.
C25_BestClientsOrNotFound ==
  [][\A r \in Req : Gets(r, "bestClients") /\ TwoDaysAndLimit(r) =>
       LET js == InDays(req'[r].start, req'[r].end)
       IN IF js = {} THEN req'[r].result = "NotFound"
          ELSE /\ req'[r].result = "ok"
               /\ ListsBestClients(Val(req'[r].body), js, AskedLimit(r))]_vars

\* with job 2 paid by client 1 (120) and job 4 by client 2 (100), BestClients
\* with limit 1 listed client 1 alone, and over an empty day it answered NotFound
C25_Witness ==
  /\ paid[2] /\ paid[4] /\ ~paid[1] /\ ~paid[5]
  /\ \E r, q \in Req :
       /\ req[r].op = "bestClients" /\ req[r].limit = "1" /\ req[r].result = "ok"
       /\ req[r].start = "2024-01-01" /\ req[r].end = "2024-01-02"
       /\ Val(req[r].body) = <<[id |-> 1, fullName |-> <<"Harry", " ", "Potter">>, paid |-> 120]>>
       /\ req[q].op = "bestClients" /\ req[q].result = "NotFound"
       /\ req[q].start = "2024-01-02" /\ req[q].end = "2024-01-01"

\* the number of clients with a paid job in the window of request r
ClientsInDays(r) == Cardinality({ClientOf(j) : j \in InDays(req'[r].start, req'[r].end)})

\* request r made its query with limit n and, if it found rows, answered n of
\* them or all the clients if they are fewer
QueriedWithLimit(r, n) ==
  /\ req'[r].queryLimit = n
  /\ req'[r].result \in {"ok", "NotFound"}
  /\ req'[r].result = "ok" =>
       Len(Val(req'[r].body)) = IF ClientsInDays(r) < n THEN ClientsInDays(r) ELSE n

\* C26: BestClients over two days queries with limit 2 when no limit is given
\* and with the given limit when it is a positive number; a limit that is not
\* a number or not positive is answered InvalidInput, whatever the store holds,
\* and no query is made.
C26_Limit ==
  [][\A r \in Req : Gets(r, "bestClients") /\ TwoDays(r) =>
       LET l == req'[r].limit
       IN IF l = Undefined THEN QueriedWithLimit(r, 2)
          ELSE IF l \in {"1", "3"} THEN QueriedWithLimit(r, IF l = "1" THEN 1 ELSE 3)
          ELSE /\ req'[r].result = "InvalidInput"
               /\ req'[r].queryLimit = 0
               /\ req'[r].body = None]_vars

\* with paid jobs of two clients on the two days, BestClients without a limit
\* queried with limit 2 and listed both, and with limit 0 it was rejected
C26_Witness ==
  /\ paid[2] /\ paid[4]
  /\ \E r, q \in Req :
       /\ req[r].op = "bestClients" /\ req[r].limit = Undefined
       /\ req[r].start = "2024-01-01" /\ req[r].end = "2024-01-02"
       /\ req[r].queryLimit = 2 /\ req[r].result = "ok" /\ Len(Val(req[r].body)) = 2
       /\ req[q].op = "bestClients" /\ req[q].limit = "0"
       /\ req[q].start = "2024-01-01" /\ req[q].end = "2024-01-02"
       /\ req[q].result = "InvalidInput"

\* with the same jobs, BestClients with limit 1 listed one client and with a
\* limit that is not a number it was rejected
LimitOneAndNotANumber ==
  /\ paid[2] /\ paid[4]
  /\ \E r, q \in Req :
       /\ req[r].op = "bestClients" /\ req[r].limit = "1"
       /\ req[r].queryLimit = 1 /\ req[r].result = "ok" /\ Len(Val(req[r].body)) = 1
       /\ req[q].op = "bestClients" /\ req[q].limit = "abc"
       /\ req[q].start = "2024-01-01" /\ req[q].end = "2024-01-02"
       /\ req[q].result = "InvalidInput"

\* request r is a report
GetsReport(r) == Gets(r, "bestProfession") \/ Gets(r, "bestClients")

\* C27: BestProfession and BestClients answer InvalidInput, whatever the store
\* holds and without a query, when the start or the end date is missing or is
\* not a date.
C27_MissingOrUnparsableDates ==
  [][\A r \in Req : GetsReport(r) /\ ~TwoDays(r) =>
       /\ req'[r].result = "InvalidInput"
       /\ req'[r].queryLimit = 0
       /\ req'[r].body = None]_vars

\* with a paid job in the store, BestProfession without a start date and
\* BestClients with an end date that does not parse were both rejected
C27_Witness ==
  /\ \E j \in Jobs : paid[j]
  /\ \E r, q \in Req :
       /\ req[r].op = "bestProfession" /\ req[r].start = Undefined
       /\ req[r].result = "InvalidInput"
       /\ req[q].op = "bestClients" /\ req[q].start = "2024-01-01"
       /\ req[q].end = "invalid-date" /\ req[q].limit = "1"
       /\ req[q].result = "InvalidInput"

\* C28: BestProfession and BestClients answer InvalidInput when the start date
\* is a later day than the end date.
C28_InvertedDates ==
  [][\A r \in Req :
       GetsReport(r) /\ TwoDays(r) /\ Day[req'[r].start] > Day[req'[r].end] =>
         req'[r].result = "InvalidInput"]_vars

\* what the handlers do with a start date later than the end date: the query is
\* made, finds nothing between the two instants, and the answer is NotFound
InvertedDatesNotFound ==
  [][\A r \in Req :
       GetsReport(r) /\ TwoDays(r) /\ Day[req'[r].start] > Day[req'[r].end] =>
         req'[r].result = "NotFound" /\ req'[r].queryLimit > 0]_vars

\* both reports were asked for a start date later than the end date
InvertedDatesAsked ==
  \E r, q \in Req :
    /\ req[r].op = "bestProfession" /\ req[q].op = "bestClients"
    /\ \A x \in {r, q} : /\ req[x].start = "2024-01-02" /\ req[x].end = "2024-01-01"
                         /\ req[x].result = "NotFound"

\* profile p is the client or the contractor of contract c
PartyTo(p, c) == c \in Contracts /\ p \in {Contract[c].ClientId, Contract[c].ContractorId}

\* C29: GET /contracts/:id succeeds, with the contract, exactly when the caller
\* is the client or the contractor of the contract; every other request, for a
\* contract of others or for an id that names no contract, gets one and the
\* same NotFound.
C29_GetContract ==
  [][\A r \in Req : Gets(r, "getContract") =>
       LET p == req'[r].caller
           c == req'[r].id
       IN IF PartyTo(p, c)
            THEN /\ req'[r].result = "ok"
                 /\ req'[r].body = Some([id |-> c, ClientId |-> Contract[c].ClientId,
                                         ContractorId |-> Contract[c].ContractorId,
                                         status |-> Contract[c].status])
            ELSE req'[r] = [Idle EXCEPT !.op = "getContract", !.pc = "done",
                                        !.caller = p, !.id = c, !.solo = req'[r].solo,
                                        !.result = "NotFound"]]_vars

\* contractor 3 got contract 1, whose contractor it is, and NotFound for
\* contract 3, which is a contract of profiles 2 and 4
C29_Witness ==
  \E r, q \in Req :
    /\ req[r].op = "getContract" /\ req[r].caller = 3 /\ req[r].id = 1
    /\ req[r].result = "ok" /\ Val(req[r].body).ContractorId = 3
    /\ req[q].op = "getContract" /\ req[q].caller = 3 /\ req[q].id = 3
    /\ req[q].result = "NotFound"

\* client 1 got NotFound for contract 3 of others and for the id 0 of no
\* contract, with nothing to tell the two answers apart
SameNotFound ==
  \E r, q \in Req :
    /\ req[r].op = "getContract" /\ req[r].caller = 1 /\ req[r].id = 3
    /\ req[q].op = "getContract" /\ req[q].caller = 1 /\ req[q].id = 0
    /\ req[r].result = "NotFound" /\ req[q].result = "NotFound"
    /\ req[r].body = req[q].body

\* C30: GET /contracts succeeds with exactly the contracts that are not
\* terminated and whose client or contractor is the caller.
C30_GetContracts ==
  [][\A r \in Req : Gets(r, "getContracts") =>
       /\ req'[r].result = "ok"
       /\ Val(req'[r].body) =
            {[id |-> c, ClientId |-> Contract[c].ClientId,
              ContractorId |-> Contract[c].ContractorId, status |-> Contract[c].status] :
               c \in {x \in Contracts : /\ Contract[x].status # "terminated"
                                        /\ PartyTo(req'[r].caller, x)}}]_vars

\* client 1, whose contract 2 is terminated, got contract 1 alone, and client 2
\* got its contracts 3 and 4
C30_Witness ==
  \E r, q \in Req :
    /\ req[r].op = "getContracts" /\ req[r].caller = 1 /\ req[r].result = "ok"
    /\ {row.id : row \in Val(req[r].body)} = {1}
    /\ req[q].op = "getContracts" /\ req[q].caller = 2 /\ req[q].result = "ok"
    /\ {row.id : row \in Val(req[q].body)} = {3, 4}

\* C31: GET /jobs/unpaid succeeds with exactly the jobs that are not paid and
\* whose contract is not terminated and has the caller as client or contractor,
\* and with no job that a PayJob committed before has paid.
C31_GetUnpaid ==
  [][\A r \in Req : Gets(r, "getUnpaid") =>
       /\ req'[r].result = "ok"
       /\ Val(req'[r].body) =
            {[id |-> j, ContractId |-> Job[j].ContractId, price |-> Job[j].price] :
               j \in {x \in Jobs : /\ ~paid[x]
                                   /\ Contract[Job[x].ContractId].status # "terminated"
                                   /\ PartyTo(req'[r].caller, Job[x].ContractId)}}
       /\ \A j \in CommittedJobs : \A row \in Val(req'[r].body) : row.id # j]_vars

\* after a PayJob for job 2 committed, client 1 got job 1 alone: job 2 is paid
\* and job 3 is a job of the terminated contract 2
C31_Witness ==
  \E q, r \in Req :
    /\ Pays(q) /\ req[q].job = 2 /\ txStatus[q] = "committed"
    /\ req[r].op = "getUnpaid" /\ req[r].caller = 1 /\ req[r].result = "ok"
    /\ {row.id : row \in Val(req[r].body)} = {1}

\* while a PayJob for job 2 had saved the job and not committed, client 1 still
\* got jobs 1 and 2
UnpaidUntilCommit ==
  \E q, r \in Req :
    /\ Pays(q) /\ req[q].job = 2 /\ txStatus[q] = "open" /\ wJob[q][2] # None
    /\ req[r].op = "getUnpaid" /\ req[r].caller = 1 /\ req[r].result = "ok"
    /\ {row.id : row \in Val(req[r].body)} = {1, 2}

\* d is a Deposit to profile p by p itself and q a PayJob paid by p, both
\* answered with success, and no other request was made
DepositAndPayJob(d, q, p) ==
  /\ Deposits(d) /\ Succeeded(d) /\ req[d].target = p /\ req[d].caller = p
  /\ Pays(q) /\ Succeeded(q) /\ ClientOf(req[q].job) = p
  /\ \A x \in Req \ {d, q} : req[x].op = "none"

\* C32: after a successful Deposit of a to client C and a successful PayJob of
\* price p paid by C, in whatever interleaving, the balance of C is its first
\* balance plus a minus p.
C32_DepositAndPayJob ==
  \A d, q \in Req : \A p \in Profiles :
    DepositAndPayJob(d, q, p) =>
      balance[p] = balance0[p] + req[d].amount - Job[req[q].job].price

\* C32 for the PayJob of a job whose contractor is another profile: it fails
\* there too, so the failure is the Deposit's, not that of the self-contract
DepositAndPayJobOfTwoProfiles ==
  \A d, q \in Req : \A p \in Profiles :
    DepositAndPayJob(d, q, p) /\ ContractorOf(req[q].job) # p =>
      balance[p] = balance0[p] + req[d].amount - Job[req[q].job].price

\* what holds instead: the balance of C ends as if both had acted, or as if the
\* Deposit alone had acted on the first balance; the Deposit is never the one
\* that is lost, PayJob reads the balance under its lock
PayJobLostOrNone ==
  \A d, q \in Req : \A p \in Profiles :
    DepositAndPayJob(d, q, p) /\ ContractorOf(req[q].job) # p =>
      balance[p] \in {balance0[p] + req[d].amount - Job[req[q].job].price,
                      balance0[p] + req[d].amount}

\* C32 for the router handlers and a positive amount
DepositAndPayJobInRouter ==
  variant = "router" =>
    \A d, q \in Req : \A p \in Profiles :
      DepositAndPayJob(d, q, p) /\ ContractorOf(req[q].job) # p /\ req[d].amount > 0 =>
        balance[p] = balance0[p] + req[d].amount - Job[req[q].job].price

\* the Deposit and the PayJob of client 1 both succeeded one after the other
DepositThenPayJob ==
  \E d, q \in Req :
    /\ DepositAndPayJob(d, q, 1) /\ d < q /\ req[q].solo
    /\ balance[1] = balance0[1] + req[d].amount - Job[req[q].job].price

\* the sum of the balances b of all profiles
SumOfBalances(b) == b[1] + b[2] + b[3] + b[4]

\* C33: every successful PayJob leaves the sum of all balances as it was; when
\* the client and the contractor of the job's contract are one profile, it
\* leaves that profile's balance as it was.
C33_SumUnchanged ==
  [][\A r \in Req : Pays(r) /\ Succeeds(r) =>
        LET j == req[r].job
        IN /\ SumOfBalances(balance') = SumOfBalances(balance)
           /\ ClientOf(j) = ContractorOf(j) => balance'[ClientOf(j)] = balance[ClientOf(j)]]_vars

\* C33, for the contracts whose client and contractor are two profiles.
SumUnchangedBetweenTwoProfiles ==
  [][\A r \in Req : Pays(r) /\ Succeeds(r) /\ ClientOf(req[r].job) # ContractorOf(req[r].job)
        => SumOfBalances(balance') = SumOfBalances(balance)]_vars

\* what a successful PayJob does when client and contractor are one profile:
\* the contractor's save is the last, and the profile gains the price
SelfContractGainsPrice ==
  [][\A r \in Req : Pays(r) /\ Succeeds(r) /\ ClientOf(req[r].job) = ContractorOf(req[r].job)
        => balance'[ClientOf(req[r].job)] = balance[ClientOf(req[r].job)] + Job[req[r].job].price]_vars

\* job 5 of contract 4, whose client and contractor are profile 2, is paid
SelfContractPaid ==
  \E r \in Req : Pays(r) /\ Succeeded(r) /\ req[r].job = 5 /\ req[r].solo /\ paid[5]

\* the profiles of type contractor
Contractors == {p \in Profiles : ProfileType[p] = "contractor"}

\* every contract names a profile of type client as its client
ClientsAreClients == \A c \in Contracts : ProfileType[Contract[c].ClientId] = "client"

\* C34: given that every contract's client is a profile of type client, no
\* successful Deposit changes the balance of a profile of type contractor, and
\* no Deposit whose target is such a profile succeeds.
C34_NoDepositToContractor ==
  [][ClientsAreClients =>
       \A r \in Req : Deposits(r) /\ Succeeds(r) =>
         /\ \A p \in Contractors : balance'[p] = balance[p]
         /\ req[r].target \notin Contractors]_vars

\* C34, for the router handler, which credits the target.
NoDepositToContractorInRouter ==
  [][ClientsAreClients /\ variant = "router" =>
       \A r \in Req : Deposits(r) /\ Succeeds(r) =>
         /\ \A p \in Contractors : balance'[p] = balance[p]
         /\ req[r].target \notin Contractors]_vars

\* the first half of C34 for both handlers: whatever the target, a successful
\* Deposit leaves the balance of every contractor as it was
NoContractorCredited ==
  [][\A r \in Req : Deposits(r) /\ Succeeds(r) =>
       \A p \in Contractors : balance'[p] = balance[p]]_vars

\* the router turned away client 1's Deposit of 75 to contractor 3, whose
\* ceiling is 0
DepositToContractorRejected ==
  /\ variant = "router"
  /\ \E r \in Req : /\ Deposits(r) /\ req[r].caller = 1 /\ req[r].target = 3
                    /\ req[r].result = "LimitExceeded"
                    /\ req[r].maximumDeposit = Some(<<0, 0>>)

\* the unpaid jobs of the contracts whose client is t, whatever their status
UnpaidJobsOf(t) == {j \in Jobs : ~paid[j] /\ Contract[Job[j].ContractId].ClientId = t}

C36_PaidIffPaymentDate ==
  /\ \A j \in Jobs : paid[j] <=> paymentDate[j] # None
  /\ \A r \in Req : \A j \in Jobs :
       wJob[r][j] # None => (Val(wJob[r][j]).paid <=> Val(wJob[r][j]).paymentDate # None)

\* a PayJob has committed job 2 with a paymentDate, job 1 is written as paid by
\* a transaction still open, and its committed row is not paid and has no date
C36_Witness ==
  /\ paid[2] /\ paymentDate[2] # None
  /\ ~paid[1] /\ paymentDate[1] = None
  /\ \E r \in Req : txStatus[r] = "open" /\ wJob[r][1] # None

\* the step in which request r, a Deposit whose userId names no profile, is
\* answered
AnswersDepositToNoProfile(r) ==
  /\ req'[r].op = "deposit" /\ req'[r].target \notin Profiles
  /\ req[r].result = "none" /\ req'[r].result # "none"

\* C37: a Deposit whose userId names no profile and whose transaction was
\* opened is answered with an error, the transaction is rolled back, and the
\* store is unchanged.
C37_DepositToNoProfile ==
  [][\A r \in Req : AnswersDepositToNoProfile(r) /\ req'[r].result # "Unhandled" =>
       /\ req'[r].result # "ok"
       /\ txStatus'[r] = "rolledback"
       /\ store' = store]_vars

\* C37, for the router handler.
DepositToNoProfileInRouter ==
  [][\A r \in Req :
       AnswersDepositToNoProfile(r) /\ req'[r].result # "Unhandled" /\ variant = "router" =>
         /\ req'[r].result # "ok"
         /\ txStatus'[r] = "rolledback"
         /\ store' = store]_vars

\* how the router answers it: userProfile is null and is never touched, the
\* ceiling of the jobs of no client is 0 and the amount exceeds it
DepositToNoProfileExceedsLimit ==
  \E r \in Req : /\ variant = "router" /\ Deposits(r) /\ req[r].target = 0
                 /\ req[r].result = "LimitExceeded"
                 /\ req[r].maximumDeposit = Some(<<0, 0>>) /\ txStatus[r] = "rolledback"

\* the app answered the same request with success and credited the caller
DepositToNoProfileCreditsCaller ==
  \E r \in Req : /\ variant = "app" /\ Deposits(r) /\ req[r].target = 0 /\ Succeeded(r)
                 /\ balance[req[r].caller] = balance0[req[r].caller] + req[r].amount

\* the step in which request r is answered, having run alone and met no
\* store error
AnswersAlone(r) ==
  /\ req[r].result = "none" /\ req'[r].result \notin {"none", "Internal", "Unhandled"}
  /\ req'[r].solo

\* what the jobs-router's PayJob answers to caller and job over the store
RouterPayOutcome(caller, j) ==
  IF ProfileType[caller] # "client" THEN "Forbidden"
  ELSE IF ~( /\ j \in Jobs /\ ~paid[j] /\ Contract[Job[j].ContractId].status # "terminated"
             /\ Contract[Job[j].ContractId].ClientId = caller ) THEN "NotFound"
  ELSE IF balance[caller] < Job[j].price THEN "InsufficientFunds"
  ELSE "ok"

\* the balances the jobs-router's PayJob leaves when it succeeds: the client's
\* row is written first, the contractor's second
RouterPayBalances(j) ==
  LET cl == Contract[Job[j].ContractId].ClientId
      co == Contract[Job[j].ContractId].ContractorId
  IN [[balance EXCEPT ![cl] = balance[cl] - Job[j].price]
        EXCEPT ![co] = balance[co] + Job[j].price]

\* request r, a PayJob, is answered as the jobs-router answers, and leaves the
\* balances and the job flags the jobs-router leaves
AnswersPayAsRouter(r) ==
  LET j == req'[r].job
      outcome == RouterPayOutcome(req'[r].caller, j)
  IN /\ req'[r].result = outcome
     /\ IF outcome = "ok"
          THEN /\ balance' = RouterPayBalances(j)
               /\ paid' = [paid EXCEPT ![j] = TRUE]
               /\ \A k \in Jobs \ {j} : paymentDate'[k] = paymentDate[k]
               /\ paymentDate'[j] # None
          ELSE store' = store

\* C38: the PayJob of the monolithic app and that of the jobs-router do the same
\* for every caller, job id and store: whichever of the two runs, alone, the
\* outcome, the balances and the job flags are those of the jobs-router, and
\* the transaction is committed on success and rolled back otherwise.
C38_PayJobEquivalent ==
  [][\A r \in Req : req'[r].op = "pay" /\ AnswersAlone(r) =>
       /\ AnswersPayAsRouter(r)
       /\ txStatus'[r] = IF req'[r].result = "ok" THEN "committed" ELSE "rolledback"]_vars

\* C38 without the transaction status: outcome, balances and job flags are the
\* same whichever of the two handlers runs.
PayJobSameOutcomeAndStore ==
  [][\A r \in Req : req'[r].op = "pay" /\ AnswersAlone(r) => AnswersPayAsRouter(r)]_vars

\* the one difference: the app answers Forbidden with its transaction open
AppForbiddenLeftOpen ==
  \E r \in Req : /\ variant = "app" /\ Pays(r) /\ req[r].solo
                 /\ req[r].result = "Forbidden" /\ txStatus[r] = "open"

\* the PayJob of client 1 for job 2, run alone, has succeeded
PayJobAloneSucceeded ==
  \E r \in Req : Pays(r) /\ req[r].solo /\ req[r].job = 2 /\ Succeeded(r)
                 /\ txStatus[r] = "committed"

\* what the balances-router's Deposit answers to a caller that is the target
RouterDepositOutcome(p, amount) ==
  IF amount <= 0 THEN "InvalidInput"
  ELSE IF ProfileType[p] # "client" THEN "Forbidden"
  ELSE IF 4 * amount > SumPrices(UnpaidJobsOf(p)) THEN "LimitExceeded"
  ELSE "ok"

\* request r, a Deposit by its target, is answered as the balances-router
\* answers, and leaves the balances the balances-router leaves
AnswersDepositAsRouter(r) ==
  LET p == req'[r].target
      outcome == RouterDepositOutcome(p, req'[r].amount)
  IN /\ req'[r].result = outcome
     /\ balance' = IF outcome = "ok" THEN [balance EXCEPT ![p] = balance[p] + req'[r].amount]
                   ELSE balance

\* C39: the Deposit of the monolithic app and that of the balances-router do the
\* same whenever the caller is the target: whichever of the two runs, alone,
\* the outcome and the balances are those of the balances-router, for every
\* amount and store.
C39_DepositEquivalent ==
  [][\A r \in Req :
       req'[r].op = "deposit" /\ AnswersAlone(r) /\ req'[r].caller = req'[r].target
         => AnswersDepositAsRouter(r)]_vars

\* C39, for the amounts that are positive.
DepositEquivalentForPositiveAmounts ==
  [][\A r \in Req :
       ( /\ req'[r].op = "deposit" /\ AnswersAlone(r) /\ req'[r].caller = req'[r].target
         /\ req'[r].amount > 0 )
         => AnswersDepositAsRouter(r)]_vars

\* the app answered a Deposit of -75 by client 2 to itself with success
AppDepositsNegativeAmount ==
  \E r \in Req : /\ variant = "app" /\ Deposits(r) /\ req[r].solo /\ req[r].caller = 2
                 /\ req[r].target = 2 /\ req[r].amount < 0 /\ Succeeded(r)

====
